---- MODULE Spec2Model ----
(***************************************************************************)
(* Model of the city-route-optimizer routing core:                         *)
(*   services/dijkstra.ts  (haversine, BinaryMinHeap, network cache,       *)
(*                          graph construction, A* search)                 *)
(*   the hybrid router     (fetchRoute with local/remote dispatch,         *)
(*                          fetchDijkstraRoute, fetchOSRMRoute)            *)
(*   services/routing.ts   (the remote-only fetchRoute)                    *)
(*   components/Sidebar.tsx (handleSearch, the caller of fetchRoute)       *)
(*                                                                         *)
(* Coordinates are integers in units of 10^-5 degree.  Distances are       *)
(* integer metres.  All modelled points lie within 0.2 degree of the       *)
(* equator, where cos(lat) rounds to 1 at this resolution, so the          *)
(* haversine formula and the planar approximation are both evaluated in    *)
(* their small-angle form, rounded down to whole metres.                   *)
(***************************************************************************)
EXTENDS Integers, Sequences, FiniteSets, Bags, TLC

\* ------------------------------------------------------------------ bounds
NumReq == 2          \* concurrent fetchRoute invocations
MaxHeapOps == 6      \* pushes + pops applied to one BinaryMinHeap
MaxPrio == 2         \* priorities pushed are drawn from 0..MaxPrio
MaxWayNodes == 4     \* node references in the ways of one generated payload
MaxSegments == 5     \* one-way two-node ways in one payload of SpecDetour

\* ------------------------------------------------------- program constants
DIJKSTRA_MAX_DISTANCE == 15000
Pad == 1500
MilliMetresPerUnit == 1112
Infinity == 2000000000
NoNode == -1

\* null and undefined: records, so that they compare with every other value;
\* UndefinedNum is the undefined of a number | undefined variable
Null == [null |-> TRUE]
Undefined == [undefined |-> TRUE]
UndefinedNum == -2

\* ---------------------------------------------------------------- helpers
Abs(x) == IF x < 0 THEN -x ELSE x
Min(a, b) == IF a < b THEN a ELSE b
Max(a, b) == IF a > b THEN a ELSE b

RECURSIVE ISqrt(_)
ISqrt(n) ==
  IF n < 2 THEN n
  ELSE LET s == 2 * ISqrt(n \div 4)
       IN  IF (s + 1) * (s + 1) <= n THEN s + 1 ELSE s

Coord(la, lo) == [lat |-> la, lng |-> lo]

\* metres spanned by a difference of d coordinate units (R * DEG_TO_RAD * d)
Metres(d) == (Abs(d) * MilliMetresPerUnit) \div 1000

\* haversineDistance(c1, c2): great-circle distance in metres
haversineDistance(c1, c2) ==
  LET dLat == Metres(c2.lat - c1.lat)
      dLon == Metres(c2.lng - c1.lng)
  IN  ISqrt(dLat * dLat + dLon * dLon)

\* fastApproxDistance(c1, c2): planar heuristic distance in metres
fastApproxDistance(c1, c2) ==
  LET dx == Metres(c2.lng - c1.lng)
      dy == Metres(c2.lat - c1.lat)
  IN  ISqrt(dx * dx + dy * dy)

\* ------------------------------------------------------------ BinaryMinHeap
\* The heap array is a sequence; indices i, parent, l, r are the 0-based
\* indices of the source, At/Swap translate them.
At(h, i) == h[i + 1]
Swap(h, i, j) == [h EXCEPT ![i + 1] = h[j + 1], ![j + 1] = h[i + 1]]

RECURSIVE bubbleUp(_, _)
bubbleUp(h, i) ==
  IF i > 0
  THEN LET parent == (i - 1) \div 2
       IN  IF At(h, i).f >= At(h, parent).f THEN h
           ELSE bubbleUp(Swap(h, i, parent), parent)
  ELSE h

\* sinkDown without the comparison against the right child
RECURSIVE sinkDownLeftOnly(_, _)
sinkDownLeftOnly(h, i) ==
  LET n == Len(h)
      l == 2 * i + 1
      smallest == IF l < n /\ At(h, l).f < At(h, i).f THEN l ELSE i
  IN  IF smallest = i THEN h
      ELSE sinkDownLeftOnly(Swap(h, i, smallest), smallest)

RECURSIVE sinkDown(_, _)
sinkDown(h, i) ==
  LET n == Len(h)
      l == 2 * i + 1
      r == 2 * i + 2
      s1 == IF l < n /\ At(h, l).f < At(h, i).f THEN l ELSE i
      smallest == IF r < n /\ At(h, r).f < At(h, s1).f THEN r ELSE s1
  IN  IF smallest = i THEN h
      ELSE sinkDown(Swap(h, i, smallest), smallest)

\* push(id, f): the heap array after the call
HeapPush(h, id, f) ==
  LET h1 == Append(h, [id |-> id, f |-> f])
  IN  bubbleUp(h1, Len(h1) - 1)

\* pop(): the returned entry (or Undefined) and the heap array after the call
HeapPop(h) ==
  IF Len(h) = 0 THEN [top |-> Undefined, heap |-> h]
  ELSE LET top == h[1]
           last == h[Len(h)]
           rest == SubSeq(h, 1, Len(h) - 1)
       IN  IF Len(rest) > 0
           THEN [top |-> top, heap |-> sinkDown([rest EXCEPT ![1] = last], 0)]
           ELSE [top |-> top, heap |-> rest]

\* ------------------------------------------------- graph construction
\* nodes: Map<number, Coordinate> as the sequence of its entries in insertion
\* order; graph: Map<number, edge[]> as a function on its key set.
EmptyMap == [x \in {} |-> 0]

NodesHas(nodes, id) == \E i \in 1..Len(nodes) : nodes[i].id = id
NodesGet(nodes, id) == nodes[CHOOSE i \in 1..Len(nodes) : nodes[i].id = id].coord
NodesSet(nodes, id, c) ==
  IF NodesHas(nodes, id)
  THEN [i \in 1..Len(nodes) |->
          IF nodes[i].id = id THEN [id |-> id, coord |-> c] ELSE nodes[i]]
  ELSE Append(nodes, [id |-> id, coord |-> c])

\* lines 119-125: the single pass over data.elements
RECURSIVE ParseElements(_, _, _, _)
ParseElements(elements, i, nodes, ways) ==
  IF i > Len(elements) THEN [nodes |-> nodes, ways |-> ways]
  ELSE LET el == elements[i]
       IN  IF el.type = "node"
           THEN ParseElements(elements, i + 1,
                              NodesSet(nodes, el.id, Coord(el.lat, el.lon)), ways)
           ELSE IF el.type = "way"
           THEN ParseElements(elements, i + 1, nodes,
                              Append(ways, [nodes |-> el.nodes, oneway |-> el.oneway]))
           ELSE ParseElements(elements, i + 1, nodes, ways)

GraphPush(graph, a, e) ==
  IF a \in DOMAIN graph THEN [graph EXCEPT ![a] = Append(@, e)]
  ELSE graph @@ (a :> <<e>>)

\* lines 130-139 without the one-way test of line 136
AddSegmentBothWays(nodes, graph, a, b, oneway) ==
  IF ~NodesHas(nodes, a) \/ ~NodesHas(nodes, b) THEN graph
  ELSE LET d == haversineDistance(NodesGet(nodes, a), NodesGet(nodes, b))
           g1 == GraphPush(graph, a, [to |-> b, weight |-> d])
       IN  GraphPush(g1, b, [to |-> a, weight |-> d])

\* lines 130-139 with the adjacency list of b created before line 136
AddSegmentEagerKeys(nodes, graph, a, b, oneway) ==
  IF ~NodesHas(nodes, a) \/ ~NodesHas(nodes, b) THEN graph
  ELSE LET d == haversineDistance(NodesGet(nodes, a), NodesGet(nodes, b))
           g1 == GraphPush(graph, a, [to |-> b, weight |-> d])
           g2 == IF b \in DOMAIN g1 THEN g1 ELSE g1 @@ (b :> <<>>)
       IN  IF ~oneway THEN GraphPush(g2, b, [to |-> a, weight |-> d]) ELSE g2

\* lines 130-139: one consecutive node pair of a way
AddSegment(nodes, graph, a, b, oneway) ==
  IF ~NodesHas(nodes, a) \/ ~NodesHas(nodes, b) THEN graph
  ELSE LET d == haversineDistance(NodesGet(nodes, a), NodesGet(nodes, b))
           g1 == GraphPush(graph, a, [to |-> b, weight |-> d])
       IN  IF ~oneway THEN GraphPush(g1, b, [to |-> a, weight |-> d]) ELSE g1

\* lines 129-140 rejecting a way that references an unknown node
RECURSIVE AddWayWholesale(_, _, _, _)
AddWayWholesale(nodes, graph, way, i) ==
  IF i >= Len(way.nodes) THEN graph
  ELSE IF \E k \in 1..Len(way.nodes) : ~NodesHas(nodes, way.nodes[k]) THEN graph
  ELSE AddWayWholesale(nodes,
                       AddSegment(nodes, graph, way.nodes[i], way.nodes[i + 1],
                                  way.oneway),
                       way, i + 1)

\* lines 129-140: the consecutive node pairs of one way
RECURSIVE AddWay(_, _, _, _)
AddWay(nodes, graph, way, i) ==
  IF i >= Len(way.nodes) THEN graph
  ELSE AddWay(nodes,
              AddSegment(nodes, graph, way.nodes[i], way.nodes[i + 1], way.oneway),
              way, i + 1)

RECURSIVE AddWays(_, _, _, _)
AddWays(nodes, graph, ways, w) ==
  IF w > Len(ways) THEN graph
  ELSE AddWays(nodes, AddWay(nodes, graph, ways[w], 1), ways, w + 1)

\* lines 114-143: the GraphData built from the elements of a response
BuildNetwork(elements) ==
  LET parsed == ParseElements(elements, 1, <<>>, <<>>)
  IN  [nodes |-> parsed.nodes,
       graph |-> AddWays(parsed.nodes, EmptyMap, parsed.ways, 1)]

\* ------------------------------------------------------------- A* search
\* lines 155-164 without the graph.has test of line 157
RECURSIVE ResolveScanAnyNode(_, _, _, _, _)
ResolveScanAnyNode(net, start, end, i, acc) ==
  IF i > Len(net.nodes) THEN acc
  ELSE LET id == net.nodes[i].id
           coord == net.nodes[i].coord
           ds == fastApproxDistance(start, coord)
           de == fastApproxDistance(end, coord)
           a1 == IF ds < acc.minSD
                 THEN [acc EXCEPT !.minSD = ds, !.startNode = id] ELSE acc
           a2 == IF de < a1.minED
                 THEN [a1 EXCEPT !.minED = de, !.endNode = id] ELSE a1
       IN  ResolveScanAnyNode(net, start, end, i + 1, a2)

\* lines 155-164: nearest node with outgoing edges for start and for end
RECURSIVE ResolveScan(_, _, _, _, _)
ResolveScan(net, start, end, i, acc) ==
  IF i > Len(net.nodes) THEN acc
  ELSE LET id == net.nodes[i].id
           coord == net.nodes[i].coord
       IN  IF id \notin DOMAIN net.graph
           THEN ResolveScan(net, start, end, i + 1, acc)
           ELSE LET ds == fastApproxDistance(start, coord)
                    de == fastApproxDistance(end, coord)
                    a1 == IF ds < acc.minSD
                          THEN [acc EXCEPT !.minSD = ds, !.startNode = id] ELSE acc
                    a2 == IF de < a1.minED
                          THEN [a1 EXCEPT !.minED = de, !.endNode = id] ELSE a1
                IN  ResolveScan(net, start, end, i + 1, a2)

ResolveNodes(net, start, end) ==
  ResolveScan(net, start, end, 1,
              [startNode |-> NoNode, endNode |-> NoNode,
               minSD |-> Infinity, minED |-> Infinity])

GGet(gScore, id) == IF id \in DOMAIN gScore THEN gScore[id] ELSE Infinity
MapSet(m, k, v) == IF k \in DOMAIN m THEN [m EXCEPT ![k] = v] ELSE m @@ (k :> v)
PlusInf(a, b) == IF a = Infinity THEN Infinity ELSE a + b

\* lines 177-183: the search state before the loop
SearchStart(net, startNode, endNode) ==
  [gScore |-> (startNode :> 0),
   prev |-> EmptyMap,
   pq |-> HeapPush(<<>>, startNode,
                   fastApproxDistance(NodesGet(net.nodes, startNode),
                                      NodesGet(net.nodes, endNode))),
   visited |-> 0,
   broke |-> FALSE]

\* lines 198-206 with a node's first g-score kept: line 200 tests
\* !gScore.has(edge.to)
RECURSIVE RelaxFirstReach(_, _, _, _, _, _, _)
RelaxFirstReach(net, endNode, currId, currG, edges, i, s) ==
  IF i > Len(edges) THEN s
  ELSE LET edge == edges[i]
           tentG == PlusInf(currG, edge.weight)
       IN  IF edge.to \notin DOMAIN s.gScore
           THEN LET h == fastApproxDistance(NodesGet(net.nodes, edge.to),
                                            NodesGet(net.nodes, endNode))
                IN  RelaxFirstReach(net, endNode, currId, currG, edges, i + 1,
                          [s EXCEPT !.gScore = MapSet(s.gScore, edge.to, tentG),
                                    !.prev = MapSet(s.prev, edge.to, currId),
                                    !.pq = HeapPush(s.pq, edge.to, tentG + h)])
           ELSE RelaxFirstReach(net, endNode, currId, currG, edges, i + 1, s)

\* lines 198-206 without the test of line 200
RECURSIVE RelaxAlways(_, _, _, _, _, _, _)
RelaxAlways(net, endNode, currId, currG, edges, i, s) ==
  IF i > Len(edges) THEN s
  ELSE LET edge == edges[i]
           tentG == PlusInf(currG, edge.weight)
           h == fastApproxDistance(NodesGet(net.nodes, edge.to),
                                   NodesGet(net.nodes, endNode))
       IN  RelaxAlways(net, endNode, currId, currG, edges, i + 1,
                       [s EXCEPT !.gScore = MapSet(s.gScore, edge.to, tentG),
                                 !.prev = MapSet(s.prev, edge.to, currId),
                                 !.pq = HeapPush(s.pq, edge.to, tentG + h)])

\* lines 198-206: relax the outgoing edges of curr, in list order
RECURSIVE Relax(_, _, _, _, _, _, _)
Relax(net, endNode, currId, currG, edges, i, s) ==
  IF i > Len(edges) THEN s
  ELSE LET edge == edges[i]
           tentG == PlusInf(currG, edge.weight)
       IN  IF tentG < GGet(s.gScore, edge.to)
           THEN LET h == fastApproxDistance(NodesGet(net.nodes, edge.to),
                                            NodesGet(net.nodes, endNode))
                IN  Relax(net, endNode, currId, currG, edges, i + 1,
                          [s EXCEPT !.gScore = MapSet(s.gScore, edge.to, tentG),
                                    !.prev = MapSet(s.prev, edge.to, currId),
                                    !.pq = HeapPush(s.pq, edge.to, tentG + h)])
           ELSE Relax(net, endNode, currId, currG, edges, i + 1, s)

\* lines 186-206 reading the top of the queue without removing it
LoopIterPeek(net, endNode, s) ==
  LET curr == HeapPop(s.pq).top
      s1 == [s EXCEPT !.visited = s.visited + 1]
  IN  IF curr.id = endNode THEN [s1 EXCEPT !.broke = TRUE]
      ELSE IF curr.id \notin DOMAIN net.graph THEN s1
      ELSE Relax(net, endNode, curr.id, GGet(s1.gScore, curr.id),
                 net.graph[curr.id], 1, s1)

\* lines 186-206: one iteration of the while loop (pq.size > 0 holds)
LoopIter(net, endNode, s) ==
  LET p == HeapPop(s.pq)
      curr == p.top
      s1 == [s EXCEPT !.pq = p.heap, !.visited = s.visited + 1]
  IN  IF curr.id = endNode THEN [s1 EXCEPT !.broke = TRUE]
      ELSE IF curr.id \notin DOMAIN net.graph THEN s1
      ELSE Relax(net, endNode, curr.id, GGet(s1.gScore, curr.id),
                 net.graph[curr.id], 1, s1)

LoopRuns(s) == Len(s.pq) > 0 /\ ~s.broke

\* history of the loop: for each node whose edges were relaxed (lines
\* 197-206), the g-score it was last expanded with, and how many times in a
\* row it has been expanded again with that same g-score
NoteExpansion(net, endNode, s, ex) ==
  LET curr == HeapPop(s.pq).top
      g == GGet(s.gScore, curr.id)
  IN  IF curr.id = endNode \/ curr.id \notin DOMAIN net.graph THEN ex
      ELSE MapSet(ex, curr.id,
                  [g |-> g,
                   again |-> IF curr.id \in DOMAIN ex /\ ex[curr.id].g = g
                             THEN ex[curr.id].again + 1 ELSE 0])

RECURSIVE RunLoop(_, _, _)
RunLoop(net, endNode, s) ==
  IF LoopRuns(s) THEN RunLoop(net, endNode, LoopIter(net, endNode, s)) ELSE s

\* line 210 with the comparison of the two nodes inverted
NoPathFoundInverted(prev, startNode, endNode) ==
  endNode \notin DOMAIN prev /\ startNode = endNode

\* line 210: the no-path test
NoPathFound(prev, startNode, endNode) ==
  endNode \notin DOMAIN prev /\ startNode # endNode

\* lines 217-220: one iteration of the predecessor walk
WalkRuns(c, startNode) == c # UndefinedNum /\ c # startNode
WalkIterPush(prev, w) ==
  [path |-> w.path \o <<w.c>>,
   c |-> IF w.c \in DOMAIN prev THEN prev[w.c] ELSE UndefinedNum]

WalkIter(prev, w) ==
  [path |-> <<w.c>> \o w.path,
   c |-> IF w.c \in DOMAIN prev THEN prev[w.c] ELSE UndefinedNum]

RECURSIVE RunWalk(_, _, _)
RunWalk(prev, startNode, w) ==
  IF WalkRuns(w.c, startNode) THEN RunWalk(prev, startNode, WalkIter(prev, w))
  ELSE <<startNode>> \o w.path

\* lines 223-226: node ids to [lat, lng] points
PathCoords(net, path) ==
  [i \in 1..Len(path) |->
     <<NodesGet(net.nodes, path[i]).lat, NodesGet(net.nodes, path[i]).lng>>]

\* lines 154-226: computeDijkstraRoute once the network is in hand
SearchNetwork(net, start, end) ==
  LET r == ResolveNodes(net, start, end)
  IN  IF r.startNode = NoNode \/ r.endNode = NoNode THEN Null
      ELSE LET s == RunLoop(net, r.endNode, SearchStart(net, r.startNode, r.endNode))
           IN  IF NoPathFound(s.prev, r.startNode, r.endNode) THEN Null
               ELSE [points |->
                       PathCoords(net, RunWalk(s.prev, r.startNode,
                                               [path |-> <<>>, c |-> r.endNode]))]

\* --------------------------------------------------------- network cache
\* Number.prototype.toFixed(4) of a value given in 10^-5 units: the sign and
\* the digits of the magnitude rounded to the nearest 10^-4 (half away from 0)
toFixed5(u) == [neg |-> u < 0, digits |-> Abs(u)]
toFixed4(u) == [neg |-> u < 0, digits |-> (Abs(u) + 5) \div 10]

\* bboxKey with one more decimal place
bboxKey5(minLat, minLon, maxLat, maxLon) ==
  [minLat |-> toFixed5(minLat), minLon |-> toFixed5(minLon),
   maxLat |-> toFixed5(maxLat), maxLon |-> toFixed5(maxLon)]

bboxKey(minLat, minLon, maxLat, maxLon) ==
  [minLat |-> toFixed4(minLat), minLon |-> toFixed4(minLon),
   maxLat |-> toFixed4(maxLat), maxLon |-> toFixed4(maxLon)]

\* lines 90-94: the padded bounding box of a request
PaddedBox(start, end) ==
  [minLat |-> Min(start.lat, end.lat) - Pad,
   maxLat |-> Max(start.lat, end.lat) + Pad,
   minLon |-> Min(start.lng, end.lng) - Pad,
   maxLon |-> Max(start.lng, end.lng) + Pad]

\* line 96
KeyOf(start, end) ==
  LET b == PaddedBox(start, end)
  IN  bboxKey(b.minLat, b.minLon, b.maxLat, b.maxLon)

\* ---------------------------------------------------------- hybrid router
Unparsable == [unparsable |-> TRUE]

\* fetchRoadNetwork lines 109-112: the request throws
OverpassThrows(resp) ==
  \/ resp.kind = "rejected"
  \/ ~resp.ok
  \/ resp.body = Unparsable
  \/ "elements" \notin DOMAIN resp.body

\* fetchOSRMRoute lines 33-50: the request throws
OsrmThrows(resp) ==
  \/ resp.kind = "rejected"
  \/ ~resp.ok
  \/ resp.body = Unparsable
  \/ /\ resp.body.code = "Ok" /\ Len(resp.body.routes) > 0
     /\ \/ "geometry" \notin DOMAIN resp.body.routes[1]
        \/ "legs" \notin DOMAIN resp.body.routes[1]

\* what the remote provider answered, as far as lines 34 and 37 tell it apart:
\* a non-success HTTP status, or a parsed body that reports no route
RemoteAnswer(resp) ==
  IF resp.kind = "http" /\ ~resp.ok THEN <<"httpError">>
  ELSE IF /\ resp.kind = "http" /\ resp.body # Unparsable
          /\ (resp.body.code # "Ok" \/ Len(resp.body.routes) = 0)
       THEN <<"noRoute">>
       ELSE <<>>

Field(rec, name) == IF name \in DOMAIN rec THEN rec[name] ELSE UndefinedNum

\* fetchOSRMRoute lines 37-58 for a parsed body that does not throw
OsrmRouteData(data) ==
  IF data.code # "Ok" \/ Len(data.routes) = 0 THEN Null
  ELSE LET route == data.routes[1]
           coords == route.geometry.coordinates
           steps == route.legs[1].steps
       IN  [geometry |-> [i \in 1..Len(coords) |-> <<coords[i][2], coords[i][1]>>],
            distance |-> Field(route, "distance"),
            duration |-> Field(route, "duration"),
            steps |-> [i \in 1..Len(steps) |->
                         [instruction |-> <<steps[i].maneuver.type, steps[i].name>>,
                          distance |-> Field(steps[i], "distance"),
                          duration |-> Field(steps[i], "duration")]],
            algorithm |-> "osrm"]

\* routing.ts lines 35-56: the same adapter inlined in the remote-only fetchRoute
RemoteOnlyRouteData(data) ==
  IF OsrmRouteData(data) = Null THEN Null
  ELSE [OsrmRouteData(data) EXCEPT !.algorithm = "Dijkstra (Contraction Hierarchies)"]

\* the loop of lines 70-72 starting one pair late
RECURSIVE PathLengthSkipFirst(_, _)
PathLengthSkipFirst(geometry, i) ==
  IF i >= Len(geometry) THEN 0
  ELSE (IF i = 1 THEN 0
        ELSE haversineDistance(Coord(geometry[i][1], geometry[i][2]),
                               Coord(geometry[i + 1][1], geometry[i + 1][2])))
       + PathLengthSkipFirst(geometry, i + 1)

\* lines 69-72: the length of the geometry from its i-th point on
RECURSIVE PathLength(_, _)
PathLength(geometry, i) ==
  IF i >= Len(geometry) THEN 0
  ELSE haversineDistance(Coord(geometry[i][1], geometry[i][2]),
                         Coord(geometry[i + 1][1], geometry[i + 1][2]))
       + PathLength(geometry, i + 1)

\* fetchDijkstraRoute with the remote adapter's label
DijkstraRouteDataOsrmTag(g) ==
  IF g = Null THEN Null
  ELSE LET distance == PathLength(g.points, 1)
           duration == (distance * 3600) \div 40000
       IN  [geometry |-> g.points, distance |-> distance, duration |-> duration,
            steps |-> <<[instruction |-> <<"Follow the highlighted shortest path.">>,
                         distance |-> distance, duration |-> duration]>>,
            algorithm |-> "osrm"]

\* fetchDijkstraRoute lines 66-84, g the value of computeDijkstraRoute
DijkstraRouteData(g) ==
  IF g = Null THEN Null
  ELSE LET distance == PathLength(g.points, 1)
           duration == (distance * 3600) \div 40000
       IN  [geometry |-> g.points, distance |-> distance, duration |-> duration,
            steps |-> <<[instruction |-> <<"Follow the highlighted shortest path.">>,
                         distance |-> distance, duration |-> duration]>>,
            algorithm |-> "dijkstra"]

\* line 96 without the distance test: the local engine is always tried
UseLocalAlways(start, end) == TRUE

\* line 96: the engine chosen by straight-line distance
UseLocal(start, end) == haversineDistance(start, end) <= DIJKSTRA_MAX_DISTANCE

\* routing.ts lines 27-60: what the promise of the remote-only fetchRoute
\* settles to
SettleRemoteOnly(thrown, value) ==
  IF thrown THEN [settled |-> "resolved", value |-> Null]
  ELSE [settled |-> "resolved", value |-> value]

\* lines 95-110 without the catch clause
SettleUncaught(thrown, value) ==
  IF thrown THEN [settled |-> "rejected", value |-> Null]
  ELSE [settled |-> "resolved", value |-> value]

\* lines 95-110: what the promise of fetchRoute settles to
Settle(thrown, value) ==
  IF thrown THEN [settled |-> "resolved", value |-> Null]
  ELSE [settled |-> "resolved", value |-> value]

\* ------------------------------------------------------------------ state
VARIABLES
  heap, popped, lastOp, ops,                      \* one BinaryMinHeap under test
  elements, qStart, qEnd, spc, net, sNodes,       \* one computeDijkstraRoute call
  st, walk, geometry, expanded, routeData,
  networkCache, pc, req, key, result, settled,    \* concurrent fetchRoute calls
  log, abandoned, delivered

heapVars == <<heap, popped, lastOp, ops>>
searchVars == <<elements, qStart, qEnd, spc, net, sNodes, st, walk, geometry,
                expanded, routeData>>
routerVars == <<networkCache, pc, req, key, result, settled, log,
                abandoned, delivered>>
vars == <<heapVars, searchVars, routerVars>>

Req == 1..NumReq

HeapIdle == heap = <<>> /\ popped = Undefined /\ lastOp = "none" /\ ops = 0
SearchIdle ==
  /\ elements = <<>> /\ qStart = Null /\ qEnd = Null /\ spc = "idle"
  /\ net = Null /\ sNodes = Null /\ st = Null /\ walk = Null /\ geometry = Null
  /\ expanded = EmptyMap /\ routeData = Null
RouterIdle ==
  /\ networkCache = EmptyMap
  /\ pc = [r \in Req |-> "idle"]
  /\ req = [r \in Req |-> Null]
  /\ key = [r \in Req |-> Null]
  /\ result = [r \in Req |-> Null]
  /\ settled = [r \in Req |-> "pending"]
  /\ log = [r \in Req |-> <<>>]
  /\ abandoned = [r \in Req |-> FALSE]
  /\ delivered = [r \in Req |-> FALSE]

\* ------------------------------------------- specification of BinaryMinHeap
HeapIds == 1..2
Prios == 0..MaxPrio

InitHeap == HeapIdle /\ SearchIdle /\ RouterIdle

Push(id, f) ==
  /\ ops < MaxHeapOps
  /\ heap' = HeapPush(heap, id, f)
  /\ lastOp' = "push"
  /\ ops' = ops + 1
  /\ UNCHANGED <<popped, searchVars, routerVars>>

Pop ==
  /\ ops < MaxHeapOps
  /\ heap' = HeapPop(heap).heap
  /\ popped' = HeapPop(heap).top
  /\ lastOp' = "pop"
  /\ ops' = ops + 1
  /\ UNCHANGED <<searchVars, routerVars>>

NextHeap ==
  \/ \E id \in HeapIds, f \in Prios : Push(id, f)
  \/ Pop

SpecHeap == InitHeap /\ [][NextHeap]_vars

Range(q) == {q[i] : i \in DOMAIN q}
BagOfSeq(q) == [e \in Range(q) |-> Cardinality({i \in DOMAIN q : q[i] = e})]

\* C7: every pop returns an entry of minimal priority among the entries held,
\* removes exactly that entry, consecutive pops yield non-decreasing
\* priorities, and pop on an empty heap returns undefined and leaves it empty.
HeapPopMinimal ==
  [][ (lastOp' = "pop" /\ ops' = ops + 1) =>
        IF Len(heap) = 0
        THEN popped' = Undefined /\ heap' = <<>>
        ELSE /\ \A i \in 1..Len(heap) : popped'.f <= heap[i].f
             /\ BagOfSeq(heap) = BagOfSeq(heap') (+) SetToBag({popped'})
             /\ (lastOp = "pop" /\ popped # Undefined => popped.f <= popped'.f)
    ]_vars

HeapPopWitness ==
  /\ lastOp = "pop" /\ popped # Undefined /\ Len(heap) >= 2
  /\ \E i \in 1..Len(heap) : heap[i].f > popped.f

\* ------------------------------------ specification of computeDijkstraRoute
\* Generated map data: the nodes of NodeLayout, listed in ascending or
\* descending id order, followed by ways that hold at most MaxWayNodes node
\* references between them.
NodeLayout == <<Coord(0, 0), Coord(0, 100), Coord(100, 0), Coord(100, 100)>>
NodeIds == 1..Len(NodeLayout)
NodeCoord(n) == NodeLayout[n]
NodeElement(n) ==
  [type |-> "node", id |-> n, lat |-> NodeCoord(n).lat, lon |-> NodeCoord(n).lng]
NodeOrders ==
  { [i \in NodeIds |-> NodeElement(i)],
    [i \in NodeIds |-> NodeElement(Len(NodeLayout) + 1 - i)] }

WayNodeSeqs(len) ==
  { w \in [1..len -> NodeIds] : \A i \in 1..(len - 1) : w[i] # w[i + 1] }
WayElements(maxLen) ==
  { [type |-> "way", nodes |-> w, oneway |-> o] :
      w \in UNION { WayNodeSeqs(n) : n \in 2..maxLen }, o \in BOOLEAN }

RECURSIVE WayListsWithin(_)
WayListsWithin(budget) ==
  IF budget < 2 THEN {<<>>}
  ELSE {<<>>} \cup
       UNION { { <<w>> \o rest : rest \in WayListsWithin(budget - Len(w.nodes)) } :
                 w \in WayElements(budget) }
WayLists == WayListsWithin(MaxWayNodes)

Queries ==
  { [start |-> Coord(0, 0), end |-> Coord(100, 100)],
    [start |-> Coord(90, 10), end |-> Coord(10, 90)] }

InitSearch ==
  /\ HeapIdle /\ RouterIdle
  /\ \E ns \in NodeOrders, ws \in WayLists : elements = ns \o ws
  /\ \E q \in Queries : qStart = q.start /\ qEnd = q.end
  /\ spc = "fetch"
  /\ net = Null /\ sNodes = Null /\ st = Null /\ walk = Null /\ geometry = Null
  /\ expanded = EmptyMap /\ routeData = Null

\* line 152: the network arrives
SBuild ==
  /\ spc = "fetch"
  /\ net' = BuildNetwork(elements)
  /\ spc' = "resolve"
  /\ UNCHANGED <<elements, qStart, qEnd, sNodes, st, walk, geometry, expanded,
                 routeData, heapVars, routerVars>>

\* lines 155-183
SResolve ==
  /\ spc = "resolve"
  /\ LET r == ResolveNodes(net, qStart, qEnd)
     IN  /\ sNodes' = r
         /\ IF r.startNode = NoNode \/ r.endNode = NoNode
            THEN geometry' = Null /\ spc' = "done" /\ st' = st
            ELSE /\ st' = SearchStart(net, r.startNode, r.endNode)
                 /\ spc' = "loop" /\ geometry' = geometry
  /\ UNCHANGED <<elements, qStart, qEnd, net, walk, expanded,
                 routeData, heapVars, routerVars>>

\* lines 185-207: one iteration of the loop
SLoop ==
  /\ spc = "loop" /\ LoopRuns(st)
  /\ st' = LoopIter(net, sNodes.endNode, st)
  /\ expanded' = NoteExpansion(net, sNodes.endNode, st, expanded)
  /\ UNCHANGED <<elements, qStart, qEnd, spc, net, sNodes, walk, geometry,
                 routeData, heapVars, routerVars>>

\* lines 210-216: the loop is over
SReconstruct ==
  /\ spc = "loop" /\ ~LoopRuns(st)
  /\ IF NoPathFound(st.prev, sNodes.startNode, sNodes.endNode)
     THEN geometry' = Null /\ spc' = "done" /\ walk' = walk
     ELSE /\ walk' = [path |-> <<>>, c |-> sNodes.endNode]
          /\ spc' = "walk" /\ geometry' = geometry
  /\ UNCHANGED <<elements, qStart, qEnd, net, sNodes, st, expanded,
                 routeData, heapVars, routerVars>>

\* lines 217-220: one iteration of the predecessor walk
SWalk ==
  /\ spc = "walk" /\ WalkRuns(walk.c, sNodes.startNode)
  /\ walk' = WalkIter(st.prev, walk)
  /\ UNCHANGED <<elements, qStart, qEnd, spc, net, sNodes, st, geometry,
                 expanded, routeData, heapVars, routerVars>>

\* lines 221-226
SReturn ==
  /\ spc = "walk" /\ ~WalkRuns(walk.c, sNodes.startNode)
  /\ geometry' = [points |-> PathCoords(net, <<sNodes.startNode>> \o walk.path)]
  /\ spc' = "done"
  /\ UNCHANGED <<elements, qStart, qEnd, net, sNodes, st, walk, expanded,
                 routeData, heapVars, routerVars>>

\* fetchDijkstraRoute (the hybrid router, lines 64-85) on the value returned
SReport ==
  /\ spc = "done"
  /\ routeData' = DijkstraRouteData(geometry)
  /\ spc' = "reported"
  /\ UNCHANGED <<elements, qStart, qEnd, net, sNodes, st, walk, geometry,
                 expanded, heapVars, routerVars>>

NextSearch ==
  SBuild \/ SResolve \/ SLoop \/ SReconstruct \/ SWalk \/ SReturn \/ SReport

SpecSearch == InitSearch /\ [][NextSearch]_vars

\* the directed edge u -> v is stored
HasEdge(g, u, v) ==
  u \in DOMAIN g /\ \E i \in 1..Len(g[u]) : g[u][i].to = v

\* the simple paths of the network from node s to node e
SimplePaths(n, s, e) ==
  LET ids == {n.nodes[i].id : i \in 1..Len(n.nodes)}
  IN  { p \in UNION { [1..k -> ids] : k \in 1..Cardinality(ids) } :
          /\ p[1] = s /\ p[Len(p)] = e
          /\ \A i, j \in 1..Len(p) : i # j => p[i] # p[j]
          /\ \A i \in 1..(Len(p) - 1) : HasEdge(n.graph, p[i], p[i + 1]) }

Resolved == sNodes # Null /\ sNodes.startNode # NoNode /\ sNodes.endNode # NoNode
Returned == spc = "done" /\ Resolved

\* C5: when exactly one path leads from the resolved start node to the
\* resolved end node, the returned geometry is that path's coordinates in
\* start-to-end order, whatever the order of the nodes and ways in the data.
SinglePathReturned ==
  Returned =>
    \A p \in SimplePaths(net, sNodes.startNode, sNodes.endNode) :
      SimplePaths(net, sNodes.startNode, sNodes.endNode) = {p}
        => geometry = [points |-> PathCoords(net, p)]

SinglePathWitness ==
  /\ Returned
  /\ \E p \in SimplePaths(net, sNodes.startNode, sNodes.endNode) :
       /\ SimplePaths(net, sNodes.startNode, sNodes.endNode) = {p}
       /\ Len(p) = 3
       /\ geometry = [points |-> PathCoords(net, p)]

\* C6: with no path from the resolved start node to the resolved end node the
\* result is null; a non-null result has at least one point, and exactly one
\* when the start node is the end node.
NeverEmptyGeometry ==
  Returned =>
    /\ SimplePaths(net, sNodes.startNode, sNodes.endNode) = {} => geometry = Null
    /\ geometry # Null =>
         /\ Len(geometry.points) >= 1
         /\ sNodes.startNode = sNodes.endNode => Len(geometry.points) = 1

NoPathWitness ==
  /\ Returned
  /\ SimplePaths(net, sNodes.startNode, sNodes.endNode) = {}
  /\ st.visited >= 2
  /\ geometry = Null

RECURSIVE ListWeight(_, _)
ListWeight(edges, k) ==
  IF k = 0 THEN 0 ELSE edges[k].weight + ListWeight(edges, k - 1)
RECURSIVE GraphWeight(_, _)
GraphWeight(g, n) ==
  IF n = 0 THEN 0
  ELSE (IF n \in DOMAIN g THEN ListWeight(g[n], Len(g[n])) ELSE 0)
       + GraphWeight(g, n - 1)
\* more than the weight of any path without a repeated edge
GCap == 1 + GraphWeight(net.graph, Len(NodeLayout))
RECURSIVE CappedScores(_, _)
CappedScores(gScore, n) ==
  IF n = 0 THEN 0
  ELSE Min(GGet(gScore, n), GCap) + CappedScores(gScore, n - 1)
\* decreases with every iteration of the loop: an iteration removes one entry
\* and every entry it adds lowers a g-score by at least one
LoopMeasure(s) == Len(s.pq) + 2 * CappedScores(s.gScore, Len(NodeLayout))
\* decreases with every iteration of the predecessor walk
WalkMeasure(w) == Len(NodeLayout) - Len(w.path)

\* C18: the loop and the predecessor walk terminate: each iteration lowers a
\* measure that is never negative; the loop is left only with the end node
\* popped or the queue empty, and an empty queue without the end node popped
\* gives null.
SearchTerminates ==
  [][ /\ (spc = "loop" /\ spc' = "loop")
           => (LoopMeasure(st') < LoopMeasure(st) /\ LoopMeasure(st') >= 0
               /\ \A n \in DOMAIN st'.gScore : st'.gScore[n] < GCap)
      /\ (spc = "loop" /\ spc' # "loop")
           => /\ st.broke \/ Len(st.pq) = 0
              /\ ~st.broke => (spc' = "done" /\ geometry' = Null)
      /\ (spc = "walk" /\ spc' = "walk")
           => (WalkMeasure(walk') < WalkMeasure(walk) /\ WalkMeasure(walk') >= 0)
      /\ (spc = "walk" /\ spc' # "walk") => (spc' = "done" /\ geometry' # Null)
    ]_vars

SearchRanToCompletion ==
  /\ Returned /\ st.broke /\ st.visited >= 3 /\ Len(walk.path) >= 2
  /\ geometry # Null
  /\ \E u, v \in NodeIds : HasEdge(net.graph, u, v) /\ HasEdge(net.graph, v, u)

\* ------------------------- computeDijkstraRoute on networks with detours
\* Four nodes, three of them in a line; the payload lists them and up to
\* MaxSegments one-way two-node ways, in a fixed order; the query runs from
\* the first node to the fourth.
DetourLayout == <<Coord(0, 0), Coord(0, 50), Coord(0, 100), Coord(60, 50)>>
DetourNodes ==
  [n \in 1..Len(DetourLayout) |->
     [type |-> "node", id |-> n, lat |-> DetourLayout[n].lat,
      lon |-> DetourLayout[n].lng]]
DirectedPairs == { p \in (1..Len(DetourLayout)) \X (1..Len(DetourLayout)) : p[1] # p[2] }
PairRank(p) == Len(DetourLayout) * p[1] + p[2]
RECURSIVE SegmentList(_)
SegmentList(S) ==
  IF S = {} THEN <<>>
  ELSE LET p == CHOOSE x \in S : \A y \in S : PairRank(x) <= PairRank(y)
       IN  <<[type |-> "way", nodes |-> <<p[1], p[2]>>, oneway |-> TRUE]>>
           \o SegmentList(S \ {p})
SegmentLists ==
  { SegmentList(S) : S \in { T \in SUBSET DirectedPairs : Cardinality(T) <= MaxSegments } }

InitDetour ==
  /\ HeapIdle /\ RouterIdle
  /\ \E ws \in SegmentLists : elements = DetourNodes \o ws
  /\ qStart = DetourLayout[1] /\ qEnd = DetourLayout[4]
  /\ spc = "fetch"
  /\ net = Null /\ sNodes = Null /\ st = Null /\ walk = Null /\ geometry = Null
  /\ expanded = EmptyMap /\ routeData = Null

SpecDetour == InitDetour /\ [][NextSearch]_vars

\* the entry the next iteration pops is stale: its node is not the end node
\* and was already expanded with the g-score it has now
StalePop ==
  /\ spc = "loop" /\ LoopRuns(st)
  /\ LET id == HeapPop(st.pq).top.id
     IN  /\ id # sNodes.endNode
         /\ id \in DOMAIN expanded
         /\ expanded[id].g = GGet(st.gScore, id)

\* C17: popping a stale entry removes that entry from the queue and changes
\* nothing else: the g-scores and the predecessors stay as they are and
\* nothing is pushed.
StaleEntriesHarmless ==
  [][ StalePop =>
        /\ st'.gScore = st.gScore
        /\ st'.prev = st.prev
        /\ BagOfSeq(st.pq) = BagOfSeq(st'.pq) (+) SetToBag({HeapPop(st.pq).top})
        /\ ~st'.broke
    ]_vars

StaleEntryPopped ==
  /\ spc = "loop"
  /\ \E id \in DOMAIN expanded :
       /\ expanded[id].again >= 1
       /\ Len(net.graph[id]) >= 1
       /\ id \in DOMAIN st.prev

\* ------------------------------------- specification of the graph builder
\* Payloads whose node list may lack nodes that the ways reference: all nodes
\* in either order, the first three only, the first three with the first one
\* listed again at another position, or none.
PartialNodeOrders ==
  NodeOrders \cup
  { <<NodeElement(1), NodeElement(2), NodeElement(3)>>,
    <<NodeElement(1), NodeElement(2), NodeElement(3),
      [type |-> "node", id |-> 1, lat |-> 100, lon |-> 100]>>,
    <<>> }

InitBuild ==
  /\ HeapIdle /\ RouterIdle
  /\ \E ns \in PartialNodeOrders, ws \in WayLists : elements = ns \o ws
  /\ qStart = Coord(0, 0) /\ qEnd = Coord(100, 100)
  /\ spc = "fetch"
  /\ net = Null /\ sNodes = Null /\ st = Null /\ walk = Null /\ geometry = Null
  /\ expanded = EmptyMap /\ routeData = Null

SpecBuild == InitBuild /\ [][SBuild]_vars

Built == net # Null
WayIndexes == { i \in 1..Len(elements) : elements[i].type = "way" }
Listed(id) == \E i \in 1..Len(elements) :
                 elements[i].type = "node" /\ elements[i].id = id
\* the coordinate the payload gives node id: the last element that lists it
ListedCoord(id) ==
  LET last == CHOOSE i \in 1..Len(elements) :
                /\ elements[i].type = "node" /\ elements[i].id = id
                /\ \A j \in (i + 1)..Len(elements) :
                     ~(elements[j].type = "node" /\ elements[j].id = id)
  IN  Coord(elements[last].lat, elements[last].lon)
\* the positions <<way, i>> of the payload that ask for an edge u -> v
Segments(u, v) ==
  { wi \in { <<w, i>> : w \in WayIndexes, i \in 1..MaxWayNodes } :
      LET ns == elements[wi[1]].nodes
          i == wi[2]
      IN  /\ i < Len(ns)
          /\ \/ ns[i] = u /\ ns[i + 1] = v
             \/ ~elements[wi[1]].oneway /\ ns[i] = v /\ ns[i + 1] = u }
StoredEdges(u, v) ==
  IF u \in DOMAIN net.graph
  THEN { i \in 1..Len(net.graph[u]) : net.graph[u][i].to = v } ELSE {}

\* C13: in every network built, both endpoints of every stored edge are keys
\* of the node table, and no key of the adjacency map has an empty edge list.
NetworkWellFormed ==
  Built =>
    \A u \in DOMAIN net.graph :
      /\ NodesHas(net.nodes, u)
      /\ Len(net.graph[u]) > 0
      /\ \A i \in 1..Len(net.graph[u]) : NodesHas(net.nodes, net.graph[u][i].to)

DroppedEdgeWitness ==
  /\ Built
  /\ \E w \in WayIndexes : \E i \in 1..Len(elements[w].nodes) :
       ~Listed(elements[w].nodes[i])
  /\ \E u \in DOMAIN net.graph, i \in 1..Len(net.nodes) :
       net.nodes[i].id \notin DOMAIN net.graph

\* C14: the network stores exactly one edge u -> v for each consecutive pair
\* (u, v) of a way with both nodes known, and one more for each consecutive
\* pair (v, u) of a way that is not one-way, and no other edge; a pair with an
\* unknown node contributes nothing and takes nothing from the other pairs of
\* its way. Every edge weighs the haversine distance of its endpoints.
EdgesFollowWays ==
  Built =>
    \A u, v \in NodeIds :
      /\ Cardinality(StoredEdges(u, v)) =
           IF Listed(u) /\ Listed(v) THEN Cardinality(Segments(u, v)) ELSE 0
      /\ \A i \in StoredEdges(u, v) :
           net.graph[u][i].weight = haversineDistance(ListedCoord(u), ListedCoord(v))

PartialWayWitness ==
  /\ Built
  /\ \E w \in WayIndexes :
       LET ns == elements[w].nodes
       IN  /\ elements[w].oneway
           /\ \E i \in 1..Len(ns) : ~Listed(ns[i])
           /\ \E j \in 1..(Len(ns) - 1) :
                /\ Listed(ns[j]) /\ Listed(ns[j + 1])
                /\ StoredEdges(ns[j], ns[j + 1]) # {}
                /\ StoredEdges(ns[j + 1], ns[j]) = {}

\* ------------------------------------------- the path the search returns
ReturnedPath == <<sNodes.startNode>> \o walk.path

\* C19: a non-null result is the coordinates of a path of the network: it
\* starts at the resolved start node, ends at the resolved end node, every
\* consecutive pair is a stored edge that a way of the payload asks for in
\* that direction, and no node occurs twice.
PathIsReal ==
  (Returned /\ geometry # Null) =>
    LET p == ReturnedPath
    IN  /\ p[1] = sNodes.startNode /\ p[Len(p)] = sNodes.endNode
        /\ \A i \in 1..(Len(p) - 1) :
             HasEdge(net.graph, p[i], p[i + 1]) /\ Segments(p[i], p[i + 1]) # {}
        /\ \A i, j \in 1..Len(p) : i # j => p[i] # p[j]
        /\ geometry = [points |-> PathCoords(net, p)]

PathAroundOneWay ==
  /\ Returned /\ geometry # Null /\ Len(ReturnedPath) >= 3
  /\ HasEdge(net.graph, sNodes.endNode, sNodes.startNode)
  /\ ~HasEdge(net.graph, sNodes.startNode, sNodes.endNode)

EdgeWeight(u, v) ==
  net.graph[u][CHOOSE i \in 1..Len(net.graph[u]) : net.graph[u][i].to = v].weight
RECURSIVE PathWeight(_, _)
PathWeight(p, k) ==
  IF k = 0 THEN 0 ELSE PathWeight(p, k - 1) + EdgeWeight(p[k], p[k + 1])
Weight(p) == PathWeight(p, Len(p) - 1)
Reaches(u, v) == SimplePaths(net, u, v) # {}
\* the heuristic of line 203 at node n
Heuristic(n) ==
  fastApproxDistance(NodesGet(net.nodes, n), NodesGet(net.nodes, sNodes.endNode))
\* at no node that the start node reaches does the heuristic exceed the weight
\* of a path from that node to the end node
Admissible ==
  \A n \in NodeIds :
    Reaches(sNodes.startNode, n) =>
      \A p \in SimplePaths(net, n, sNodes.endNode) : Heuristic(n) <= Weight(p)

\* C20: when the heuristic never overestimates, no path from the resolved
\* start node to the resolved end node weighs less than the returned one.
PathIsShortest ==
  (Returned /\ geometry # Null /\ Admissible) =>
    \A p \in SimplePaths(net, sNodes.startNode, sNodes.endNode) :
      Weight(ReturnedPath) <= Weight(p)

ShorterDetourReturned ==
  /\ Returned /\ geometry # Null /\ Admissible
  /\ Len(ReturnedPath) = 4
  /\ \E p \in SimplePaths(net, sNodes.startNode, sNodes.endNode) :
       Len(p) < 4 /\ Weight(p) > Weight(ReturnedPath)

PointCoord(pt) == Coord(pt[1], pt[2])
\* the great-circle lengths of the first k segments of geometry g, added up
RECURSIVE SegmentsSum(_, _)
SegmentsSum(g, k) ==
  IF k = 0 THEN 0
  ELSE SegmentsSum(g, k - 1) + haversineDistance(PointCoord(g[k]), PointCoord(g[k + 1]))

\* C16: the distance of every result of the local engine is the sum of the
\* great-circle distances between consecutive points of its own geometry (0
\* for one point), and its distance and duration are not negative.
LocalDistanceIsGeometryLength ==
  (spc = "reported" /\ routeData # Null) =>
    /\ routeData.geometry = geometry.points /\ Len(routeData.geometry) >= 1
    /\ routeData.distance =
         SegmentsSum(routeData.geometry, Len(routeData.geometry) - 1)
    /\ Len(routeData.geometry) = 1 => routeData.distance = 0
    /\ routeData.distance >= 0 /\ routeData.duration >= 0
    /\ routeData.algorithm = "dijkstra"

LongResultReported ==
  /\ spc = "reported" /\ routeData # Null
  /\ Len(routeData.geometry) >= 3
  /\ routeData.distance > 200 /\ routeData.duration > 0

\* ------------------------------------------- specification of the router
\* Requests: A and A2 have padded boxes with the same key; A3 differs from
\* both by less than 10^-4 degree in every bound but has another key; B has a
\* disjoint box; F is farther than DIJKSTRA_MAX_DISTANCE.
PairA  == [start |-> Coord(2, 0), end |-> Coord(2, 100)]
PairA2 == [start |-> Coord(4, 0), end |-> Coord(4, 100)]
PairA3 == [start |-> Coord(6, 0), end |-> Coord(6, 100)]
PairB  == [start |-> Coord(5000, 5000), end |-> Coord(5000, 5100)]
PairF  == [start |-> Coord(0, 0), end |-> Coord(14000, 0)]
RoutePairs == {PairA, PairA2, PairA3, PairB, PairF}

\* Responses of the map-data provider
MapConnected ==
  <<NodeElement(1), NodeElement(2),
    [type |-> "way", nodes |-> <<1, 2>>, oneway |-> FALSE]>>
MapEmpty == <<>>
MapIsolated == <<NodeElement(1), NodeElement(2)>>
OverpassResponses ==
  { [kind |-> "rejected"],
    [kind |-> "http", ok |-> FALSE, body |-> Unparsable],
    [kind |-> "http", ok |-> TRUE, body |-> Unparsable],
    [kind |-> "http", ok |-> TRUE, body |-> [remark |-> "runtime error"]] }
  \cup { [kind |-> "http", ok |-> TRUE, body |-> [elements |-> e]] :
           e \in {MapConnected, MapEmpty, MapIsolated} }

\* Responses of the remote routing provider to a request for pair p
OsrmStep(d, t) ==
  [maneuver |-> [type |-> "depart"], name |-> "unnamed road",
   distance |-> d, duration |-> t]
OsrmGeometry(p) ==
  [coordinates |-> <<<<p.start.lng, p.start.lat>>, <<p.end.lng, p.end.lat>>>>]
OsrmFull(p) ==
  LET d == haversineDistance(p.start, p.end) + 10
  IN  [code |-> "Ok",
       routes |-> <<[geometry |-> OsrmGeometry(p),
                     legs |-> <<[steps |-> <<OsrmStep(d, d \div 10)>>]>>,
                     distance |-> d, duration |-> d \div 10]>>]
OsrmPartial(p) ==
  [code |-> "Ok",
   routes |-> <<[geometry |-> OsrmGeometry(p),
                 legs |-> <<[steps |-> <<>>]>>]>>]
OsrmNoGeometry == [code |-> "Ok", routes |-> <<[distance |-> 1, duration |-> 1]>>]
OsrmNoRoute == [code |-> "NoRoute", routes |-> <<>>]
OsrmEmptyRoutes == [code |-> "Ok", routes |-> <<>>]
OsrmResponses(p) ==
  { [kind |-> "rejected"],
    [kind |-> "http", ok |-> FALSE, body |-> Unparsable],
    [kind |-> "http", ok |-> FALSE, body |-> OsrmNoRoute] }
  \cup { [kind |-> "http", ok |-> TRUE, body |-> b] :
           b \in {Unparsable, OsrmFull(p), OsrmPartial(p), OsrmNoGeometry,
                  OsrmNoRoute, OsrmEmptyRoutes} }

Init == HeapIdle /\ SearchIdle /\ RouterIdle

Logged(r, ev) == [log EXCEPT ![r] = @ \o ev]

\* fetchRoute settles and handleSearch (Sidebar.tsx lines 256-262) resumes
Return(r, s, ev) ==
  /\ result' = [result EXCEPT ![r] = s.value]
  /\ settled' = [settled EXCEPT ![r] = s.settled]
  /\ pc' = [pc EXCEPT ![r] = "done"]
  /\ delivered' = [delivered EXCEPT ![r] = s.settled = "resolved" /\ s.value # Null]
  /\ log' = Logged(r, ev \o <<"return">> \o
                      IF s.settled = "resolved" /\ s.value # Null
                      THEN <<"deliver">> ELSE <<>>)

\* line 106: the remote request goes out
IssueOsrm(r, ev) ==
  /\ pc' = [pc EXCEPT ![r] = "awaitOsrm"]
  /\ log' = Logged(r, ev \o <<"osrm">>)
  /\ UNCHANGED <<result, settled, delivered>>

\* lines 98-106 and fetchDijkstraRoute, once the network n is in hand
\* ("noNode": computeDijkstraRoute returns at line 168, before the heap of
\* line 177 exists; "search": lines 171-226 run)
AfterLocal(r, p, n, ev) ==
  LET rs == ResolveNodes(n, p.start, p.end)
      ran == IF rs.startNode = NoNode \/ rs.endNode = NoNode
             THEN <<"noNode">> ELSE <<"search">>
      local == DijkstraRouteData(SearchNetwork(n, p.start, p.end))
  IN  IF local # Null
      THEN Return(r, Settle(FALSE, local), ev \o ran \o <<"localOk">>)
      ELSE IssueOsrm(r, ev \o ran \o <<"localNull">>)

\* requests are numbered in the order in which they are made
Callable(r) == pc[r] = "idle" /\ \A q \in Req : q < r => pc[q] # "idle"

\* fetchRoute(start, end) up to its first suspension
Call(r, p) ==
  /\ Callable(r)
  /\ req' = [req EXCEPT ![r] = [start |-> p.start, end |-> p.end, impl |-> "hybrid"]]
  /\ IF UseLocal(p.start, p.end)
     THEN LET k == KeyOf(p.start, p.end)
          IN  /\ key' = [key EXCEPT ![r] = k]
              /\ IF k \in DOMAIN networkCache
                 THEN AfterLocal(r, p, networkCache[k], <<"local", "cacheHit">>)
                 ELSE /\ pc' = [pc EXCEPT ![r] = "awaitOverpass"]
                      /\ log' = Logged(r, <<"local", "overpass">>)
                      /\ UNCHANGED <<result, settled, delivered>>
     ELSE key' = key /\ IssueOsrm(r, <<>>)
  /\ UNCHANGED <<networkCache, abandoned, heapVars, searchVars>>

\* the map-data fetch of request r settles: fetchRoadNetwork lines 109-145,
\* computeDijkstraRoute, and fetchRoute up to its next suspension
OverpassResponse(r, resp) ==
  /\ pc[r] = "awaitOverpass"
  /\ IF OverpassThrows(resp)
     THEN /\ Return(r, Settle(TRUE, Null), <<"localThrow">>)
          /\ networkCache' = networkCache
     ELSE LET n == BuildNetwork(resp.body.elements)
          IN  /\ networkCache' = MapSet(networkCache, key[r], n)
              /\ AfterLocal(r, req[r], n, <<"cacheSet">>)
  /\ UNCHANGED <<req, key, abandoned, heapVars, searchVars>>

\* the remote routing fetch of request r settles: fetchOSRMRoute lines 33-58
OsrmResponse(r, resp) ==
  /\ pc[r] = "awaitOsrm"
  /\ IF OsrmThrows(resp)
     THEN Return(r, Settle(TRUE, Null), RemoteAnswer(resp) \o <<"osrmThrow">>)
     ELSE Return(r, Settle(FALSE, OsrmRouteData(resp.body)),
                 RemoteAnswer(resp) \o <<"osrmDone">>)
  /\ UNCHANGED <<networkCache, req, key, abandoned, heapVars, searchVars>>

\* routing.ts lines 24-30: the remote-only fetchRoute up to its suspension
CallRemoteOnly(r, p) ==
  /\ Callable(r)
  /\ req' = [req EXCEPT ![r] = [start |-> p.start, end |-> p.end, impl |-> "remoteOnly"]]
  /\ pc' = [pc EXCEPT ![r] = "awaitRemoteOnly"]
  /\ log' = Logged(r, <<"osrm">>)
  /\ UNCHANGED <<networkCache, key, result, settled, delivered, abandoned,
                 heapVars, searchVars>>

\* routing.ts lines 30-60
RemoteOnlyResponse(r, resp) ==
  /\ pc[r] = "awaitRemoteOnly"
  /\ IF OsrmThrows(resp)
     THEN Return(r, SettleRemoteOnly(TRUE, Null),
                 RemoteAnswer(resp) \o <<"osrmThrow">>)
     ELSE Return(r, SettleRemoteOnly(FALSE, RemoteOnlyRouteData(resp.body)),
                 RemoteAnswer(resp) \o <<"osrmDone">>)
  /\ UNCHANGED <<networkCache, req, key, abandoned, heapVars, searchVars>>

\* the caller gives up on request r (the panel is closed, Sidebar.tsx line
\* 305); neither fetch call takes an AbortSignal and handleSearch keeps no
\* handle, so nothing but the caller's own interest changes
Abandon(r) ==
  /\ pc[r] # "idle"
  /\ abandoned' = [abandoned EXCEPT ![r] = TRUE]
  /\ UNCHANGED <<networkCache, pc, req, key, result, settled, log, delivered,
                 heapVars, searchVars>>

Next ==
  \/ \E r \in Req, p \in RoutePairs : Call(r, p)
  \/ \E r \in Req, resp \in OverpassResponses : OverpassResponse(r, resp)
  \/ \E r \in Req : /\ pc[r] = "awaitOsrm"
                     /\ \E resp \in OsrmResponses(req[r]) : OsrmResponse(r, resp)
  \/ \E r \in Req : CallRemoteOnly(r, PairF)
  \/ \E r \in Req : /\ pc[r] = "awaitRemoteOnly"
                     /\ \E resp \in OsrmResponses(req[r]) : RemoteOnlyResponse(r, resp)

Spec == Init /\ [][Next]_vars

\* the router with callers that may give up on their requests
NextAbandon == Next \/ \E r \in Req : Abandon(r)

SpecAbandon == Init /\ [][NextAbandon]_vars

\* a provider accepts the request of r and never answers: fetch is called
\* without a signal or a timer (dijkstra.ts line 109, part_001 line 33,
\* routing.ts line 30), so the await of r never resumes
ProviderSilent(r) ==
  /\ pc[r] \in {"awaitOverpass", "awaitOsrm", "awaitRemoteOnly"}
  /\ pc' = [pc EXCEPT ![r] = "awaitForever"]
  /\ UNCHANGED <<networkCache, req, key, result, settled, log, delivered,
                 abandoned, heapVars, searchVars>>

\* the router with providers that may stay silent
NextSilent == Next \/ \E r \in Req : ProviderSilent(r)

SpecSilent == Init /\ [][NextSilent]_vars

\* ------------------------------------------------- properties of the router
LogHas(l, e) == \E i \in 1..Len(l) : l[i] = e
HasEvent(r, e) == LogHas(log[r], e)
Hybrid(r) == req[r] # Null /\ req[r].impl = "hybrid"
StraightLine(r) == haversineDistance(req[r].start, req[r].end)
Near(r) == StraightLine(r) <= 15000
LocalFailed(r) == HasEvent(r, "localNull") \/ HasEvent(r, "localThrow")

\* C1: a request at or below the threshold whose local attempt fails (no
\* path, or the map-data fetch/build step throws) has issued the remote
\* routing request by the time fetchRoute returns.
FallbackOnLocalFailure ==
  \A r \in Req :
    (Hybrid(r) /\ Near(r) /\ settled[r] # "pending" /\ LocalFailed(r))
      => HasEvent(r, "osrm")

FullyPopulated(rd) ==
  /\ Len(rd.geometry) >= 1
  /\ rd.distance # UndefinedNum /\ rd.distance >= 0
  /\ rd.duration # UndefinedNum /\ rd.duration >= 0
  /\ \A i \in 1..Len(rd.steps) :
       /\ rd.steps[i].distance # UndefinedNum
       /\ rd.steps[i].duration # UndefinedNum
  /\ rd.algorithm \in {"dijkstra", "osrm", "Dijkstra (Contraction Hierarchies)"}

\* C2: the promise of fetchRoute never rejects; it resolves to null or to a
\* fully populated RouteData, whatever the providers answer.
NeverRaisesFullyPopulated ==
  \A r \in Req :
    /\ settled[r] # "rejected"
    /\ settled[r] = "resolved" => (result[r] = Null \/ FullyPopulated(result[r]))

\* C3: a local success at or below the threshold is tagged 'dijkstra'; a
\* request above the threshold is only ever tagged 'osrm'; a request whose
\* local search returned no path and whose remote retry succeeded is tagged
\* 'osrm'.
AlgorithmTagByEngine ==
  \A r \in Req :
    (Hybrid(r) /\ settled[r] = "resolved" /\ result[r] # Null) =>
      /\ (Near(r) /\ HasEvent(r, "localOk")) => result[r].algorithm = "dijkstra"
      /\ ~Near(r) => result[r].algorithm = "osrm"
      /\ HasEvent(r, "localNull") => result[r].algorithm = "osrm"
      /\ result[r].algorithm = "dijkstra" => ~HasEvent(r, "osrm")

RemoteRetryTagged ==
  \E r \in Req :
    /\ Hybrid(r) /\ Near(r) /\ HasEvent(r, "localNull")
    /\ settled[r] = "resolved" /\ result[r] # Null
    /\ result[r].algorithm = "osrm"

\* C4: the remote request of an invocation is issued only after its local
\* attempt has resolved, never while its map-data fetch is in flight, and an
\* invocation above the threshold issues no map-data fetch at all.
LocalBeforeRemote ==
  \A r \in Req :
    Hybrid(r) =>
      /\ ~Near(r) => (~HasEvent(r, "local") /\ ~HasEvent(r, "overpass"))
      /\ pc[r] = "awaitOverpass" => ~HasEvent(r, "osrm")
      /\ \A j \in 1..Len(log[r]) :
           (log[r][j] = "osrm" /\ HasEvent(r, "local"))
             => \E i \in 1..(j - 1) : log[r][i] = "localNull"

RemoteAfterMapFetch ==
  \E r, q \in Req :
    /\ Hybrid(r) /\ HasEvent(r, "overpass") /\ HasEvent(r, "osrm")
    /\ Hybrid(q) /\ ~Near(q) /\ HasEvent(q, "osrm")

BoxOf(rq) == PaddedBox(rq.start, rq.end)
BoundNames == {"minLat", "minLon", "maxLat", "maxLon"}
\* every bound differs by less than 10^-4 degree
CloseBoxes(b1, b2) == \A n \in BoundNames : Abs(b1[n] - b2[n]) < 10
\* every bound prints the same under toFixed(4): same sign, same rounded digits
SameFormatted(b1, b2) ==
  \A n \in BoundNames :
    /\ (b1[n] < 0) = (b2[n] < 0)
    /\ (Abs(b1[n]) + 5) \div 10 = (Abs(b2[n]) + 5) \div 10
DisjointBoxes(b1, b2) ==
  \/ b1.maxLat < b2.minLat \/ b2.maxLat < b1.minLat
  \/ b1.maxLon < b2.minLon \/ b2.maxLon < b1.minLon

\* request r is made in this step and takes the local path, after request q
\* has returned having obtained and cached its network
LocalCallAfter(r, q) ==
  /\ pc[r] = "idle" /\ pc'[r] # "idle" /\ LogHas(log'[r], "local")
  /\ q # r /\ pc[q] = "done" /\ HasEvent(q, "cacheSet")

TwoEntries(q1, q2) ==
  /\ key[q1] # key[q2]
  /\ key[q1] \in DOMAIN networkCache /\ key[q2] \in DOMAIN networkCache

\* C8 as stated: boxes closer than the rounding precision in every bound give
\* a cache hit without a second fetch; disjoint boxes give two entries.
NearbyBoxesHit ==
  [][ \A r, q \in Req :
        /\ (LocalCallAfter(r, q) /\ CloseBoxes(BoxOf(req[q]), BoxOf(req'[r])))
             => (LogHas(log'[r], "cacheHit") /\ ~LogHas(log'[r], "overpass"))
        /\ (HasEvent(r, "cacheSet") /\ HasEvent(q, "cacheSet")
              /\ DisjointBoxes(BoxOf(req[q]), BoxOf(req[r])))
             => TwoEntries(q, r)
    ]_vars

\* C8 amended: boxes whose four bounds print the same under toFixed(4) give a
\* cache hit without a second fetch; disjoint boxes give two entries.
SameKeyBoxesHit ==
  [][ \A r, q \in Req :
        /\ (LocalCallAfter(r, q) /\ SameFormatted(BoxOf(req[q]), BoxOf(req'[r])))
             => (LogHas(log'[r], "cacheHit") /\ ~LogHas(log'[r], "overpass"))
        /\ (HasEvent(r, "cacheSet") /\ HasEvent(q, "cacheSet")
              /\ DisjointBoxes(BoxOf(req[q]), BoxOf(req[r])))
             => TwoEntries(q, r)
    ]_vars

CacheHitOnOtherBox ==
  \E r, q \in Req :
    /\ pc[q] = "done" /\ HasEvent(q, "cacheSet") /\ HasEvent(r, "cacheHit")
    /\ ~HasEvent(r, "overpass")
    /\ BoxOf(req[q]) # BoxOf(req[r])
    /\ SameFormatted(BoxOf(req[q]), BoxOf(req[r]))

\* C9: the cache is written only under a key that has no entry, and an entry,
\* once stored, is neither replaced nor removed.
CacheInsertOnly ==
  [][ /\ \A r \in Req :
           (pc[r] = "awaitOverpass" /\ LogHas(log'[r], "cacheSet"))
             => key[r] \notin DOMAIN networkCache
      /\ \A k \in DOMAIN networkCache :
           k \in DOMAIN networkCache' /\ networkCache'[k] = networkCache[k]
    ]_vars

NewEvents(r) == { log'[r][i] : i \in (Len(log[r]) + 1)..Len(log'[r]) }

\* C10: once the caller has abandoned a request, that request writes nothing
\* to the cache, runs no search and delivers no result.
AbandonedFetchInert ==
  [][ \A r \in Req :
        abandoned[r] => NewEvents(r) \cap {"cacheSet", "search", "deliver"} = {}
    ]_vars

\* C11: every invocation of fetchRoute eventually returns, even when a
\* provider never answers: no invocation is left awaiting a fetch that will
\* never settle (no step of the router resumes an invocation in that state).
NoCallWaitsForever ==
  \A r \in Req : pc[r] # "awaitForever"

\* C12: when the network a request obtains (fetched or cached) has no node
\* with an outgoing edge, computeDijkstraRoute returns null before any heap
\* exists, and the same step of fetchRoute issues the remote routing request.
EdgelessNetworkFallsBack ==
  [][ \A r \in Req :
        ( /\ NewEvents(r) \cap {"cacheSet", "cacheHit"} # {}
          /\ DOMAIN networkCache'[key'[r]].graph = {} )
        => /\ "search" \notin NewEvents(r)
           /\ {"noNode", "localNull", "osrm"} \subseteq NewEvents(r)
           /\ pc'[r] = "awaitOsrm" /\ settled'[r] = "pending"
    ]_vars

IsolatedNodesFallBack ==
  \E r, q \in Req :
    /\ HasEvent(r, "cacheSet") /\ HasEvent(r, "noNode") /\ HasEvent(r, "osrm")
    /\ ~HasEvent(r, "search")
    /\ Len(networkCache[key[r]].nodes) > 0
    /\ DOMAIN networkCache[key[r]].graph = {}
    /\ HasEvent(q, "cacheSet") /\ HasEvent(q, "noNode") /\ HasEvent(q, "osrm")
    /\ Len(networkCache[key[q]].nodes) = 0

ReturnedNull(r) == settled[r] = "resolved" /\ result[r] = Null

\* C15 as stated: when the remote provider answers with a non-success status
\* or with no route, the adapter returns null without raising, and fetchRoute
\* returns null.
RemoteFailureNeverRaises ==
  \A r \in Req :
    (pc[r] = "done" /\ (HasEvent(r, "httpError") \/ HasEvent(r, "noRoute")))
      => (~HasEvent(r, "osrmThrow") /\ ReturnedNull(r))

\* C15 amended: a body that reports no route (code other than 'Ok', or an
\* empty route list) under a success HTTP status makes the adapter return null
\* without raising; a non-success HTTP status makes the adapter raise, and
\* fetchRoute catches it; fetchRoute returns null in both cases.
RemoteFailureReturnsNull ==
  \A r \in Req :
    pc[r] = "done" =>
      /\ HasEvent(r, "noRoute")
           => (~HasEvent(r, "osrmThrow") /\ HasEvent(r, "osrmDone") /\ ReturnedNull(r))
      /\ HasEvent(r, "httpError")
           => (HasEvent(r, "osrmThrow") /\ ~HasEvent(r, "osrmDone") /\ ReturnedNull(r))

BothRemoteFailures ==
  \E r, q \in Req :
    /\ Hybrid(r) /\ pc[r] = "done" /\ HasEvent(r, "httpError") /\ ReturnedNull(r)
    /\ pc[q] = "done" /\ HasEvent(q, "noRoute") /\ ReturnedNull(q)

====
